---- MODULE Spec2Model ----
(***************************************************************************)
(* Model of the generate_image tool handler of openai-image-mcp, in its    *)
(* two deployments: the URL-forced server (src/src/index.ts) and the       *)
(* inline/optional-save server (src/unnamed/part_001).                     *)
(*                                                                         *)
(* JavaScript values are tagged records, so that the typeof tests and the  *)
(* truthiness tests of the handler are computed and not assumed.  A string *)
(* whose characters the program looks at (a path, base64 text) carries its *)
(* characters in cs; every other string carries its text in s.             *)
(***************************************************************************)
EXTENDS Integers, Sequences, FiniteSets, TLC

VARIABLES
    variant,        \* which server runs: "url" (index.ts) or "inline" (part_001)
    defaultModel,   \* the constructor's defaultModel argument (index.ts:44)
    pc,             \* per invocation: "idle", "requesting", "saving", "done"
    req,            \* per invocation: request.params (name, arguments)
    body,           \* per invocation: requestBody handed to axios.post
    posts,          \* per invocation: number of axios.post calls issued
    http,           \* per invocation: how axios.post settled
    writes,         \* per invocation: number of fs.writeFile calls issued
    save,           \* per invocation: how fs.writeFile settled
    outcome,        \* per invocation: what the handler returned or threw
    fs              \* the filesystem: resolved path -> bytes

vars == <<variant, defaultModel, pc, req, body, posts, http, writes, save, outcome, fs>>

----------------------------------------------------------------------------
(* Bounds *)

\* number of invocation slots of the host process
MaxSlots == 2
\* largest number of optional keys one arguments bag supplies
MaxSupplied == 1

Slots == 1..MaxSlots

----------------------------------------------------------------------------
(* JavaScript values *)

Undefined == [t |-> "undefined", n |-> 0, s |-> "", cs |-> <<>>]
Null == [t |-> "null", n |-> 0, s |-> "", cs |-> <<>>]
Obj == [t |-> "object", n |-> 0, s |-> "", cs |-> <<>>]
Num(x) == [t |-> "number", n |-> x, s |-> "", cs |-> <<>>]
Str(x) == [t |-> "string", n |-> 0, s |-> x, cs |-> <<>>]
CStr(chars) == [t |-> "string", n |-> 0, s |-> "", cs |-> chars]

\* typeof v
TypeOf(v) == IF v.t = "null" THEN "object" ELSE v.t

\* ToBoolean(v), as used by !v, v && e and v || e
Truthy(v) ==
    CASE v.t = "number" -> v.n # 0
      [] v.t = "string" -> v.s # "" \/ v.cs # <<>>
      [] v.t = "object" -> TRUE
      [] OTHER -> FALSE

RECURSIVE Join(_)
\* the text of a character sequence
Join(chars) == IF chars = <<>> THEN "" ELSE Head(chars) \o Join(Tail(chars))

\* String(v), as a template literal converts v
ToText(v) ==
    CASE v.t = "string" -> v.s \o Join(v.cs)
      [] v.t = "number" -> ToString(v.n)
      [] v.t = "object" -> "[object Object]"
      [] OTHER -> v.t

\* a || b
OrElse(a, b) == IF Truthy(a) THEN a ELSE b

\* o[k] of an arguments bag: a missing key reads as undefined
Get(props, k) == IF k \in DOMAIN props THEN props[k] ELSE Undefined

\* the empty object
NoProps == [k \in {} |-> Undefined]

----------------------------------------------------------------------------
(* Configuration *)

FallbackModel == "black-forest-labs/FLUX.1-schnell-Free"

\* the instance's defaultConfig: index.ts builds it in the constructor,
\* part_001 has it as a module constant with response_format
DefaultConfig(v, dm) ==
    IF v = "url"
    THEN [k \in {"width", "height", "steps", "n", "model"} |->
            CASE k = "width" -> Num(1024)
              [] k = "height" -> Num(768)
              [] k = "steps" -> Num(1)
              [] k = "n" -> Num(1)
              [] k = "model" -> OrElse(dm, Str(FallbackModel))]
    ELSE [k \in {"model", "width", "height", "steps", "n", "response_format"} |->
            CASE k = "model" -> Str(FallbackModel)
              [] k = "width" -> Num(1024)
              [] k = "height" -> Num(768)
              [] k = "steps" -> Num(1)
              [] k = "n" -> Num(1)
              [] k = "response_format" -> Str("b64_json")]

----------------------------------------------------------------------------
(* Downstream bodies, errors and outcomes of an invocation *)

\* response.data when there is none
NoData == [t |-> "undefined", raw |-> "", hasList |-> FALSE, list |-> <<>>, message |-> Undefined]

NoError ==
    [name |-> "", code |-> "", message |-> <<>>, isAxiosError |-> FALSE,
     hasResponse |-> FALSE, data |-> NoData]

\* new McpError(code, message)
McpError(code, message) ==
    [NoError EXCEPT !.name = "McpError", !.code = code, !.message = message]

\* the TypeError the runtime raises
TypeError(message) == [NoError EXCEPT !.name = "TypeError", !.message = message]

NoOutcome == [kind |-> "none", content |-> <<>>, isError |-> FALSE, error |-> NoError]

\* the handler's promise rejects with err
Throw(err) == [kind |-> "thrown", content |-> <<>>, isError |-> FALSE, error |-> err]

\* return { content: [{ type: 'text', text }] } and, when flagged, isError: true
Result(text, flagged) ==
    [kind |-> "result", content |-> <<[type |-> "text", text |-> text]>>,
     isError |-> flagged, error |-> NoError]

----------------------------------------------------------------------------
(* Routing, validation and the default merge *)

ToolName == "generate_image"

\* request.params.name !== 'generate_image'
UnknownTool(name) == name # ToolName

\* !request.params.arguments || typeof request.params.arguments !== 'object'
ArgumentsInvalid(args) == ~Truthy(args.val) \/ TypeOf(args.val) # "object"


\* PromptInvalid without the typeof test
PromptInvalidKeyOnly(args) == "prompt" \notin DOMAIN args.props

\* !('prompt' in arguments) || typeof arguments.prompt !== 'string'
PromptInvalid(args) ==
    \/ "prompt" \notin DOMAIN args.props
    \/ TypeOf(args.props["prompt"]) # "string"


\* Validate with the arguments checked before the operation name
ValidateArgumentsFirst(r) ==
    IF ArgumentsInvalid(r.arguments)
    THEN McpError("InvalidParams", <<"Invalid arguments provided">>)
    ELSE IF PromptInvalid(r.arguments)
    THEN McpError("InvalidParams", <<"Prompt is required and must be a string">>)
    ELSE IF UnknownTool(r.name)
    THEN McpError("MethodNotFound", <<"Unknown tool: ", r.name>>)
    ELSE NoError

\* the three guards that open the call handler, in the order of the code:
\* the error thrown, or NoError
Validate(r) ==
    IF UnknownTool(r.name)
    THEN McpError("MethodNotFound", <<"Unknown tool: ", r.name>>)
    ELSE IF ArgumentsInvalid(r.arguments)
    THEN McpError("InvalidParams", <<"Invalid arguments provided">>)
    ELSE IF PromptInvalid(r.arguments)
    THEN McpError("InvalidParams", <<"Prompt is required and must be a string">>)
    ELSE NoError


\* Spread with a test for undefined in place of the truthiness test
SpreadDefined(props, k) ==
    IF Get(props, k).t # "undefined" THEN (k :> Get(props, k)) ELSE NoProps

\* ...(arguments.k && { k: arguments.k }): spreading a falsy value adds nothing
Spread(props, k) ==
    IF Truthy(Get(props, k)) THEN (k :> Get(props, k)) ELSE NoProps


\* RequestBodyUrl with the caller's response_format spread after the forced one
RequestBodyUrlCallerFormat(cfg, props) ==
    Spread(props, "response_format") @@ ("response_format" :> Str("url"))
    @@ Spread(props, "n") @@ Spread(props, "steps") @@ Spread(props, "height")
    @@ Spread(props, "width") @@ Spread(props, "model")
    @@ ("prompt" :> props["prompt"]) @@ cfg

\* requestBody of index.ts: a later entry of the literal overrides an earlier one
RequestBodyUrl(cfg, props) ==
    ("response_format" :> Str("url"))
    @@ Spread(props, "n") @@ Spread(props, "steps") @@ Spread(props, "height")
    @@ Spread(props, "width") @@ Spread(props, "model")
    @@ ("prompt" :> props["prompt"]) @@ cfg

\* RequestBodyInline with the whole arguments bag spread into the body
RequestBodyInlineForwardAll(cfg, props) ==
    Spread(props, "response_format")
    @@ Spread(props, "n") @@ Spread(props, "steps") @@ Spread(props, "height")
    @@ Spread(props, "width") @@ Spread(props, "model")
    @@ props @@ cfg

\* requestBody of part_001
RequestBodyInline(cfg, props) ==
    Spread(props, "response_format")
    @@ Spread(props, "n") @@ Spread(props, "steps") @@ Spread(props, "height")
    @@ Spread(props, "width") @@ Spread(props, "model")
    @@ ("prompt" :> props["prompt"]) @@ cfg


\* RequestBody without the spread of the defaults
RequestBodyWithoutDefaults(v, cfg, props) ==
    IF v = "url" THEN RequestBodyUrl(NoProps, props) ELSE RequestBodyInline(NoProps, props)

\* the requestBody of the deployment v

RequestBody(v, cfg, props) ==
    IF v = "url" THEN RequestBodyUrl(cfg, props) ELSE RequestBodyInline(cfg, props)

----------------------------------------------------------------------------
(* Base64: Buffer.from(text, 'base64'), and the encoding the downstream uses *)

B64Alphabet ==
    << "A","B","C","D","E","F","G","H","I","J","K","L","M","N","O","P",
       "Q","R","S","T","U","V","W","X","Y","Z","a","b","c","d","e","f",
       "g","h","i","j","k","l","m","n","o","p","q","r","s","t","u","v",
       "w","x","y","z","0","1","2","3","4","5","6","7","8","9","+","/" >>

\* the 6-bit value of a base64 character
Sextet(c) == (CHOOSE i \in 1..64 : B64Alphabet[i] = c) - 1


RECURSIVE B64DecodeWholeGroups(_)
\* B64Decode that drops a final group cut short by padding
B64DecodeWholeGroups(chars) ==
    IF Len(chars) < 4 \/ chars[3] = "=" \/ chars[4] = "="
    THEN <<>>
    ELSE LET a == Sextet(chars[1])
             b == Sextet(chars[2])
             c == Sextet(chars[3])
         IN  <<a * 4 + (b \div 16), (b % 16) * 16 + (c \div 4), (c % 4) * 64 + Sextet(chars[4])>>
             \o B64DecodeWholeGroups(SubSeq(chars, 5, Len(chars)))

RECURSIVE B64Decode(_)
\* the bytes of base64 text: four characters give three bytes, and a final
\* group cut short by '=' padding gives one or two
B64Decode(chars) ==
    IF Len(chars) < 2 \/ chars[1] = "=" \/ chars[2] = "="
    THEN <<>>
    ELSE LET a == Sextet(chars[1])
             b == Sextet(chars[2])
             b1 == a * 4 + (b \div 16)
         IN  IF Len(chars) < 3 \/ chars[3] = "="
             THEN <<b1>>
             ELSE LET c == Sextet(chars[3])
                      b2 == (b % 16) * 16 + (c \div 4)
                  IN  IF Len(chars) < 4 \/ chars[4] = "="
                      THEN <<b1, b2>>
                      ELSE <<b1, b2, (c % 4) * 64 + Sextet(chars[4])>>
                           \o B64Decode(SubSeq(chars, 5, Len(chars)))

RECURSIVE B64Encode(_)
\* the base64 text of bytes, padded with '='
B64Encode(bytes) ==
    IF bytes = <<>>
    THEN <<>>
    ELSE LET x == bytes[1]
             c1 == B64Alphabet[(x \div 4) + 1]
         IN  IF Len(bytes) = 1
             THEN <<c1, B64Alphabet[(x % 4) * 16 + 1], "=", "=">>
             ELSE LET y == bytes[2]
                      c2 == B64Alphabet[(x % 4) * 16 + (y \div 16) + 1]
                  IN  IF Len(bytes) = 2
                      THEN <<c1, c2, B64Alphabet[(y % 16) * 4 + 1], "=">>
                      ELSE LET z == bytes[3]
                           IN  <<c1, c2, B64Alphabet[(y % 16) * 4 + (z \div 64) + 1],
                                 B64Alphabet[(z % 64) + 1]>>
                               \o B64Encode(SubSeq(bytes, 4, Len(bytes)))

----------------------------------------------------------------------------
(* Paths: path.resolve(image_path) *)

\* process.cwd(), as path segments
Cwd == <<"w", "d">>

RECURSIVE Split(_, _, _)
\* the segments of a path text, cut at every "/"
Split(chars, cur, acc) ==
    IF chars = <<>>
    THEN Append(acc, cur)
    ELSE IF Head(chars) = "/"
         THEN Split(Tail(chars), "", Append(acc, cur))
         ELSE Split(Tail(chars), cur \o Head(chars), acc)

RECURSIVE Normalize(_, _)
\* drops empty and "." segments; ".." drops the segment before it
Normalize(segs, acc) ==
    IF segs = <<>>
    THEN acc
    ELSE LET h == Head(segs)
         IN  IF h = "" \/ h = "."
             THEN Normalize(Tail(segs), acc)
             ELSE IF h = ".."
                  THEN Normalize(Tail(segs),
                                 IF acc = <<>> THEN acc ELSE SubSeq(acc, 1, Len(acc) - 1))
                  ELSE Normalize(Tail(segs), Append(acc, h))

RECURSIVE JoinPath(_)
JoinPath(segs) ==
    IF segs = <<>> THEN "" ELSE "/" \o Head(segs) \o JoinPath(Tail(segs))

\* path.resolve(p) for a string p: an absolute path, relative ones taken from cwd
Resolve(chars) ==
    LET segs == Split(chars, "", <<>>)
        from == IF chars # <<>> /\ Head(chars) = "/" THEN segs ELSE Cwd \o segs
        norm == Normalize(from, <<>>)
    IN  IF norm = <<>> THEN "/" ELSE JoinPath(norm)

----------------------------------------------------------------------------
(* JSON.stringify(response.data, null, 2) *)

Quote(text) == "\"" \o text \o "\""

RECURSIVE Pad(_)
Pad(k) == IF k = 0 THEN "" ELSE " " \o Pad(k - 1)

RECURSIVE JoinLines(_, _)
JoinLines(items, indent) ==
    IF Len(items) = 1
    THEN Pad(indent) \o items[1]
    ELSE Pad(indent) \o Head(items) \o ",\n" \o JoinLines(Tail(items), indent)

\* an object or an array with its members on lines of their own
Block(open, items, close, indent) ==
    IF items = <<>>
    THEN open \o close
    ELSE open \o "\n" \o JoinLines(items, indent + 2) \o "\n" \o Pad(indent) \o close

JsonValue(v) ==
    CASE v.t = "string" -> Quote(ToText(v))
      [] v.t = "number" -> ToString(v.n)
      [] OTHER -> "null"

\* a member whose value is undefined is left out
Member(k, v) ==
    IF v.t = "undefined" THEN <<>> ELSE <<Quote(k) \o ": " \o JsonValue(v)>>

EntryJson(e) == Block("{", Member("url", e.url) \o Member("b64_json", e.b64_json), "}", 4)

ListJson(list) == Block("[", [i \in 1..Len(list) |-> EntryJson(list[i])], "]", 2)

Stringify(d) ==
    CASE d.t = "string" -> Quote(d.raw)
      [] d.t = "object" ->
            Block("{",
                  Member("message", d.message)
                  \o (IF d.hasList THEN <<Quote("data") \o ": " \o ListJson(d.list)>> ELSE <<>>),
                  "}", 0)
      [] OTHER -> "undefined"

----------------------------------------------------------------------------
(* Result shaping and the catch clause *)

\* data?.data?.[0]?.[f]
FirstEntry(d, f) ==
    IF d.t = "object" /\ d.hasList /\ d.list # <<>> THEN d.list[1][f] ELSE Undefined


\* ResponseMessage that never finds one
ResponseMessageIgnored(err) == Undefined

\* error.response?.data?.message
ResponseMessage(err) ==
    IF err.hasResponse /\ err.data.t = "object" THEN err.data.message ELSE Undefined


\* Catch that absorbs every error
CatchEverything(err) ==
    Result(<<"API Error: ",
             IF Truthy(ResponseMessage(err))
             THEN ToText(ResponseMessage(err))
             ELSE Join(err.message)>>, TRUE)

\* catch (error) of the call handler
Catch(err) ==
    IF err.isAxiosError
    THEN Result(<<"API Error: ",
                  IF Truthy(ResponseMessage(err))
                  THEN ToText(ResponseMessage(err))
                  ELSE Join(err.message)>>, TRUE)
    ELSE Throw(err)


\* ShapeUrl without the test for a missing url
ShapeUrlUnchecked(d) == Result(<<ToText(FirstEntry(d, "url"))>>, FALSE)

\* index.ts, after the await: the first entry's url or an internal error
ShapeUrl(d) ==
    LET imageUrl == FirstEntry(d, "url")
    IN  IF ~Truthy(imageUrl)
        THEN Catch(McpError("InternalError", <<"API response did not contain an ", "image URL", ".">>))
        ELSE Result(<<ToText(imageUrl)>>, FALSE)

\* part_001: arguments.image_path && response.data.data?.[0]?.b64_json
WantsSave(props, d) ==
    Truthy(Get(props, "image_path")) /\ Truthy(FirstEntry(d, "b64_json"))

\* Buffer.from(response.data.data[0].b64_json, 'base64')
ImageBuffer(d) == B64Decode(d.list[1].b64_json.cs)

\* path.resolve(arguments.image_path)
OutputPath(props) == Resolve(props["image_path"].cs)

\* the text returned after a save
SavedText(props, d) ==
    <<"Image saved successfully to: ", OutputPath(props), "\n\n", Stringify(d)>>

\* SaveFailed that drops the cause from its message
SaveFailedNoCause(cause) == McpError("InternalError", <<"Failed to save image">>)

\* catch (error) around the save
SaveFailed(cause) == McpError("InternalError", <<"Failed to save image: ", cause>>)

\* part_001, after the await, when nothing is saved
ShapeInline(d) == Result(<<Stringify(d)>>, FALSE)

----------------------------------------------------------------------------
(* What callers send and what the downstream answers *)

Names == {ToolName, "delete_image"}

OptKeys == {"model", "width", "height", "steps", "n", "response_format", "image_path"}

\* values a caller supplies under an optional key: falsy ones, ones within
\* the advertised bounds and ones outside them
ArgValues(k) ==
    CASE k = "model" -> {Str(""), Str("dall-e-3")}
      [] k = "width" -> {Num(0), Num(512), Num(4096)}
      [] k = "height" -> {Num(0), Num(64)}
      [] k = "steps" -> {Null, Num(0), Num(20)}
      [] k = "n" -> {Num(0), Num(2)}
      [] k = "response_format" -> {Str(""), Str("url"), Str("b64_json")}
      [] k = "image_path" -> {Str(""), CStr(<<"/", "t", "/", ".", "/", "o">>),
                              CStr(<<".", ".", "/", "o">>), Num(7)}

PromptValues == {Str("a cat"), Str(""), Num(7)}

OptionalBags ==
    UNION { {f \in [K -> UNION {ArgValues(k) : k \in K}] : \A k \in K : f[k] \in ArgValues(k)} :
            K \in {S \in SUBSET OptKeys : Cardinality(S) <= MaxSupplied} }

PromptBags == {NoProps} \cup {("prompt" :> v) : v \in PromptValues}

\* request.params.arguments: an object with its own keys, or something else
Arguments ==
    {[val |-> Obj, props |-> p @@ o] : p \in PromptBags, o \in OptionalBags}
    \cup {[val |-> v, props |-> NoProps] : v \in {Undefined, Null, Str("a cat"), Num(0)}}

Requests == {[name |-> nm, arguments |-> a] : nm \in Names, a \in Arguments}

\* images the downstream generates
Images == {<<>>, <<77>>, <<77, 97>>, <<77, 97, 110>>}

Entry(url, b64) == [url |-> url, b64_json |-> b64]

ObjData(list) == [NoData EXCEPT !.t = "object", !.hasList = TRUE, !.list = list]

\* response.data of a 2xx answer
OkBodies ==
    {NoData,
     [NoData EXCEPT !.t = "string", !.raw = "<html>"],
     [NoData EXCEPT !.t = "object"],
     ObjData(<<>>),
     ObjData(<<Entry(Undefined, Undefined)>>),
     ObjData(<<Entry(Str(""), Undefined)>>),
     ObjData(<<Entry(Str("https://img/1.png"), Undefined)>>),
     ObjData(<<Entry(Str("https://img/1.png"), Undefined),
               Entry(Str("https://img/2.png"), Undefined)>>)}
    \cup {ObjData(<<Entry(Undefined, CStr(B64Encode(img)))>>) : img \in Images}

AxiosError(message, hasResponse, data) ==
    [NoError EXCEPT !.name = "AxiosError", !.message = <<message>>, !.isAxiosError = TRUE,
                    !.hasResponse = hasResponse, !.data = data]

\* what axios.post rejects with
Rejections ==
    {AxiosError("Request failed with status code 429", TRUE,
                [NoData EXCEPT !.t = "object", !.message = Str("quota exceeded")]),
     AxiosError("Request failed with status code 400", TRUE,
                [NoData EXCEPT !.t = "object", !.message = Str("")]),
     AxiosError("Request failed with status code 500", TRUE, [NoData EXCEPT !.t = "object"]),
     AxiosError("Request failed with status code 502", TRUE,
                [NoData EXCEPT !.t = "string", !.raw = "<html>"]),
     AxiosError("connect ECONNREFUSED", FALSE, NoData),
     [NoError EXCEPT !.name = "Error", !.message = <<"socket hang up">>]}

\* why fs.writeFile fails
WriteCauses == {"ENOENT: no such file or directory", "ENOSPC: no space left on device"}

----------------------------------------------------------------------------
(* The state machine *)

NoFiles == [p \in {} |-> <<>>]

NoRequest == [name |-> "", arguments |-> [val |-> Undefined, props |-> NoProps]]

Pending == [status |-> "pending", data |-> NoData, error |-> NoError]

\* no fs.writeFile has been issued
NoSave == [status |-> "none", cause |-> ""]

Init ==
    /\ variant \in {"url", "inline"}
    /\ defaultModel \in (IF variant = "url"
                         THEN {Undefined, Str(""), Str("dall-e-3")}
                         ELSE {Undefined})
    /\ pc = [i \in Slots |-> "idle"]
    /\ req = [i \in Slots |-> NoRequest]
    /\ body = [i \in Slots |-> NoProps]
    /\ posts = [i \in Slots |-> 0]
    /\ http = [i \in Slots |-> Pending]
    /\ writes = [i \in Slots |-> 0]
    /\ save = [i \in Slots |-> NoSave]
    /\ outcome = [i \in Slots |-> NoOutcome]
    /\ fs = NoFiles

\* Invoke that merges the caller's model into the shared defaults
InvokeSharingDefaults(i, r) ==
    /\ pc[i] = "idle"
    /\ req' = [req EXCEPT ![i] = r]
    /\ IF Validate(r) # NoError
       THEN /\ outcome' = [outcome EXCEPT ![i] = Throw(Validate(r))]
            /\ pc' = [pc EXCEPT ![i] = "done"]
            /\ UNCHANGED <<body, posts, defaultModel>>
       ELSE /\ defaultModel' = OrElse(Get(r.arguments.props, "model"), defaultModel)
            /\ body' = [body EXCEPT ![i] =
                          RequestBody(variant, DefaultConfig(variant, defaultModel'),
                                      r.arguments.props)]
            /\ posts' = [posts EXCEPT ![i] = @ + 1]
            /\ pc' = [pc EXCEPT ![i] = "requesting"]
            /\ UNCHANGED outcome
    /\ UNCHANGED <<variant, http, writes, save, fs>>

\* the call handler from its entry to the await of axios.post
Invoke(i, r) ==
    /\ pc[i] = "idle"
    /\ req' = [req EXCEPT ![i] = r]
    /\ IF Validate(r) # NoError
       THEN /\ outcome' = [outcome EXCEPT ![i] = Throw(Validate(r))]
            /\ pc' = [pc EXCEPT ![i] = "done"]
            /\ UNCHANGED <<body, posts>>
       ELSE /\ body' = [body EXCEPT ![i] =
                          RequestBody(variant, DefaultConfig(variant, defaultModel),
                                      r.arguments.props)]
            /\ posts' = [posts EXCEPT ![i] = @ + 1]
            /\ pc' = [pc EXCEPT ![i] = "requesting"]
            /\ UNCHANGED outcome
    /\ UNCHANGED <<variant, defaultModel, http, writes, save, fs>>

\* axios.post resolves with data d: the handler runs on to its return, its
\* throw or the await of fs.writeFile
PostResolved(i, d) ==
    /\ pc[i] = "requesting"
    /\ http' = [http EXCEPT ![i] = [status |-> "resolved", data |-> d, error |-> NoError]]
    /\ LET props == req[i].arguments.props
       IN  IF variant = "url"
           THEN /\ outcome' = [outcome EXCEPT ![i] = ShapeUrl(d)]
                /\ pc' = [pc EXCEPT ![i] = "done"]
                /\ UNCHANGED <<writes, save>>
           ELSE IF d.t = "undefined"
           THEN /\ outcome' = [outcome EXCEPT ![i] =
                      Catch(TypeError(<<"Cannot read properties of undefined (reading 'data')">>))]
                /\ pc' = [pc EXCEPT ![i] = "done"]
                /\ UNCHANGED <<writes, save>>
           ELSE IF ~WantsSave(props, d)
           THEN /\ outcome' = [outcome EXCEPT ![i] = ShapeInline(d)]
                /\ pc' = [pc EXCEPT ![i] = "done"]
                /\ UNCHANGED <<writes, save>>
           ELSE IF TypeOf(props["image_path"]) # "string"
           THEN /\ outcome' = [outcome EXCEPT ![i] =
                      Catch(SaveFailed("The \"paths[0]\" argument must be of type string"))]
                /\ pc' = [pc EXCEPT ![i] = "done"]
                /\ UNCHANGED <<writes, save>>
           ELSE /\ writes' = [writes EXCEPT ![i] = @ + 1]
                /\ save' = [save EXCEPT ![i] = [status |-> "pending", cause |-> ""]]
                /\ pc' = [pc EXCEPT ![i] = "saving"]
                /\ UNCHANGED outcome
    /\ UNCHANGED <<variant, defaultModel, req, body, posts, fs>>

\* PostRejected that posts once more after a first failure
PostRejectedRetry(i, e) ==
    /\ pc[i] = "requesting"
    /\ http' = [http EXCEPT ![i] = [status |-> "rejected", data |-> NoData, error |-> e]]
    /\ IF posts[i] < 2
       THEN /\ posts' = [posts EXCEPT ![i] = @ + 1]
            /\ UNCHANGED <<outcome, pc>>
       ELSE /\ outcome' = [outcome EXCEPT ![i] = Catch(e)]
            /\ pc' = [pc EXCEPT ![i] = "done"]
            /\ UNCHANGED posts
    /\ UNCHANGED <<variant, defaultModel, req, body, writes, save, fs>>

\* axios.post rejects with e: the catch clause decides
PostRejected(i, e) ==
    /\ pc[i] = "requesting"
    /\ http' = [http EXCEPT ![i] = [status |-> "rejected", data |-> NoData, error |-> e]]
    /\ outcome' = [outcome EXCEPT ![i] = Catch(e)]
    /\ pc' = [pc EXCEPT ![i] = "done"]
    /\ UNCHANGED <<variant, defaultModel, req, body, posts, writes, save, fs>>

\* fs.writeFile resolves: the file holds the buffer, the handler returns
WriteDone(i) ==
    /\ pc[i] = "saving"
    /\ fs' = (OutputPath(req[i].arguments.props) :> ImageBuffer(http[i].data)) @@ fs
    /\ outcome' = [outcome EXCEPT ![i] =
                     Result(SavedText(req[i].arguments.props, http[i].data), FALSE)]
    /\ save' = [save EXCEPT ![i] = [status |-> "resolved", cause |-> ""]]
    /\ pc' = [pc EXCEPT ![i] = "done"]
    /\ UNCHANGED <<variant, defaultModel, req, body, posts, http, writes>>

\* fs.writeFile rejects: nothing was written, or the file was opened and
\* holds the first k bytes
WriteFailed(i, cause, opened, k) ==
    /\ pc[i] = "saving"
    /\ k < Len(ImageBuffer(http[i].data))
    /\ fs' = IF opened
             THEN (OutputPath(req[i].arguments.props)
                     :> SubSeq(ImageBuffer(http[i].data), 1, k)) @@ fs
             ELSE fs
    /\ outcome' = [outcome EXCEPT ![i] = Catch(SaveFailed(cause))]
    /\ save' = [save EXCEPT ![i] = [status |-> "rejected", cause |-> cause]]
    /\ pc' = [pc EXCEPT ![i] = "done"]
    /\ UNCHANGED <<variant, defaultModel, req, body, posts, http, writes>>

\* the response has gone to the caller: the invocation's entities are dropped
Respond(i) ==
    /\ pc[i] = "done"
    /\ pc' = [pc EXCEPT ![i] = "idle"]
    /\ req' = [req EXCEPT ![i] = NoRequest]
    /\ body' = [body EXCEPT ![i] = NoProps]
    /\ posts' = [posts EXCEPT ![i] = 0]
    /\ http' = [http EXCEPT ![i] = Pending]
    /\ writes' = [writes EXCEPT ![i] = 0]
    /\ save' = [save EXCEPT ![i] = NoSave]
    /\ outcome' = [outcome EXCEPT ![i] = NoOutcome]
    /\ UNCHANGED <<variant, defaultModel, fs>>

\* a client that waits for each response before its next call
OthersIdle(i) == \A j \in Slots \ {i} : pc[j] = "idle"

Next ==
    \/ \E i \in Slots : OthersIdle(i) /\ pc[i] = "idle" /\ \E r \in Requests : Invoke(i, r)
    \/ \E i \in Slots : pc[i] = "requesting" /\ \E d \in OkBodies : PostResolved(i, d)
    \/ \E i \in Slots : pc[i] = "requesting" /\ \E e \in Rejections : PostRejected(i, e)
    \/ \E i \in Slots : WriteDone(i)
    \/ \E i \in Slots, c \in WriteCauses, o \in BOOLEAN, k \in 0..2 : WriteFailed(i, c, o, k)
    \/ \E i \in Slots : Respond(i)

Spec == Init /\ [][Next]_vars

----------------------------------------------------------------------------
(* Invocations served concurrently: the transport hands a call to the      *)
(* handler while others wait on axios.post or fs.writeFile                 *)

ConcurrentRequests ==
    {[name |-> ToolName, arguments |-> [val |-> Obj, props |-> p]] :
        p \in {NoProps,
               ("prompt" :> Str("a cat")),
               ("prompt" :> Str("a cat")) @@ ("model" :> Str("dall-e-3")),
               ("prompt" :> Str("a cat")) @@ ("response_format" :> Str("url")),
               ("prompt" :> Str("a cat")) @@ ("image_path" :> CStr(<<".", ".", "/", "o">>))}}

ConcurrentBodies ==
    {ObjData(<<>>),
     ObjData(<<Entry(Str("https://img/1.png"), Undefined)>>),
     ObjData(<<Entry(Undefined, CStr(B64Encode(<<77, 97>>)))>>)}

ConcurrentRejections ==
    {AxiosError("Request failed with status code 429", TRUE,
                [NoData EXCEPT !.t = "object", !.message = Str("quota exceeded")]),
     AxiosError("connect ECONNREFUSED", FALSE, NoData)}

NextConcurrent ==
    \/ \E i \in Slots, r \in ConcurrentRequests : Invoke(i, r)
    \/ \E i \in Slots, d \in ConcurrentBodies : PostResolved(i, d)
    \/ \E i \in Slots, e \in ConcurrentRejections : PostRejected(i, e)
    \/ \E i \in Slots : WriteDone(i)
    \/ \E i \in Slots, o \in BOOLEAN : WriteFailed(i, "ENOSPC: no space left on device", o, 1)
    \/ \E i \in Slots : Respond(i)

SpecConcurrent == Init /\ [][NextConcurrent]_vars

----------------------------------------------------------------------------
(* Vocabulary of the properties *)

\* the invocation has been received and not yet answered
Active(i) == pc[i] # "idle"

\* the handler threw an McpError with this code
ThrewMcp(i, code) ==
    /\ outcome[i].kind = "thrown"
    /\ outcome[i].error.name = "McpError"
    /\ outcome[i].error.code = code

\* a text made of parts mentions the part
Mentions(text, part) == \E k \in 1..Len(text) : text[k] = part

\* the arguments bag is absent, no structured object, without prompt or with
\* a prompt that is not text
BadArguments(a) ==
    \/ a.val.t # "object"
    \/ "prompt" \notin DOMAIN a.props
    \/ a.props["prompt"].t # "string"

\* a valid invocation whose POST has been issued
Posted(i) == Active(i) /\ posts[i] > 0

\* the model the deployment is configured with
ConfiguredModel ==
    IF variant = "url" /\ defaultModel.t = "string" /\ defaultModel.s # ""
    THEN defaultModel
    ELSE Str("black-forest-labs/FLUX.1-schnell-Free")

\* the defaults of the documentation
DocumentedDefaults ==
    ("model" :> ConfiguredModel) @@ ("width" :> Num(1024)) @@ ("height" :> Num(768))
    @@ ("steps" :> Num(1)) @@ ("n" :> Num(1))
    @@ (IF variant = "inline" THEN ("response_format" :> Str("b64_json")) ELSE NoProps)

----------------------------------------------------------------------------
(* C1: a generate_image invocation whose arguments are absent, not an      *)
(* object, without prompt or with a prompt that is not text ends in an     *)
(* invalid-params error and nothing else, and issues no POST.              *)
C1_BadArgumentsAreInvalidParams ==
    \A i \in Slots :
        (Active(i) /\ req[i].name = "generate_image" /\ BadArguments(req[i].arguments))
        => /\ pc[i] = "done"
           /\ ThrewMcp(i, "InvalidParams")
           /\ posts[i] = 0
           /\ body[i] = NoProps
           /\ http[i].status = "pending"

C1_Witness ==
    \E i \in Slots :
        /\ pc[i] = "done"
        /\ req[i].name = "generate_image"
        /\ req[i].arguments.val.t = "object"
        /\ "prompt" \in DOMAIN req[i].arguments.props
        /\ req[i].arguments.props["prompt"] = Num(7)
        /\ ThrewMcp(i, "InvalidParams")

(* C2: an invocation under any other operation name ends in a              *)
(* method-not-found error that names the operation, whatever its           *)
(* arguments, and issues no POST.                                          *)
C2_UnknownToolIsMethodNotFound ==
    \A i \in Slots :
        (Active(i) /\ req[i].name # "generate_image")
        => /\ pc[i] = "done"
           /\ ThrewMcp(i, "MethodNotFound")
           /\ Mentions(outcome[i].error.message, req[i].name)
           /\ posts[i] = 0
           /\ http[i].status = "pending"

C2_Witness ==
    \E i \in Slots :
        /\ pc[i] = "done"
        /\ req[i].name = "delete_image"
        /\ BadArguments(req[i].arguments)
        /\ ThrewMcp(i, "MethodNotFound")

(* C3 as stated: with arguments holding only prompt, the outbound body is  *)
(* the configured defaults with prompt overlaid and no other field.        *)
C3_Original ==
    \A i \in Slots :
        (Posted(i) /\ DOMAIN req[i].arguments.props = {"prompt"})
        => body[i] = ("prompt" :> req[i].arguments.props["prompt"]) @@ DocumentedDefaults

(* C3 as amended: with arguments holding only prompt, the outbound body is *)
(* the configured defaults with prompt overlaid and, in the URL-forced     *)
(* deployment, the forced response_format "url"; no other field.           *)
C3_PromptOnlyBody ==
    \A i \in Slots :
        (Posted(i) /\ DOMAIN req[i].arguments.props = {"prompt"})
        => body[i] = (IF variant = "url" THEN ("response_format" :> Str("url")) ELSE NoProps)
                     @@ ("prompt" :> req[i].arguments.props["prompt"])
                     @@ DocumentedDefaults

C3_Witness ==
    \E i \in Slots :
        /\ Posted(i)
        /\ req[i].arguments.props = ("prompt" :> Str("a cat"))
        /\ body[i]["prompt"] = Str("a cat")
        /\ body[i]["height"] = Num(768)

\* a caller's value that counts as supplied: a non-zero number, a non-empty text
Supplied(props, k) ==
    /\ k \in DOMAIN props
    /\ \/ props[k].t = "number" /\ props[k].n # 0
       \/ props[k].t = "string" /\ (props[k].s # "" \/ props[k].cs # <<>>)

\* omitted, or supplied as 0 or as the empty text
NotSupplied(props, k) ==
    \/ k \notin DOMAIN props
    \/ props[k] = Num(0)
    \/ props[k] = Str("")

(* C4: for model, width, height, steps and n the outbound body carries the *)
(* caller's value when it is supplied and truthy, the default when it is   *)
(* omitted, 0 or empty; a numeric field of the body is never 0.            *)
C4_FalsyDefaulting ==
    \A i \in Slots :
        Posted(i) =>
            \A k \in {"model", "width", "height", "steps", "n"} :
                /\ Supplied(req[i].arguments.props, k)
                      => body[i][k] = req[i].arguments.props[k]
                /\ NotSupplied(req[i].arguments.props, k)
                      => body[i][k] = DocumentedDefaults[k]
                /\ k # "model" => body[i][k] # Num(0)

C4_Witness ==
    \E i \in Slots :
        /\ Posted(i)
        /\ "width" \in DOMAIN req[i].arguments.props
        /\ req[i].arguments.props["width"] = Num(0)
        /\ body[i]["width"] = Num(1024)

\* v is a number within lo..hi
Within(v, lo, hi) == v.t = "number" /\ lo <= v.n /\ v.n <= hi

(* C5: every field of every outbound body meets its declared constraint:   *)
(* prompt is non-empty text, width and height lie in 128..2048, steps in   *)
(* 1..100, n in 1..4, response_format is b64_json or url.                  *)
C5_BodyMeetsConstraints ==
    \A i \in Slots :
        Posted(i) =>
            /\ body[i]["prompt"].t = "string" /\ body[i]["prompt"].s # ""
            /\ Within(body[i]["width"], 128, 2048)
            /\ Within(body[i]["height"], 128, 2048)
            /\ Within(body[i]["steps"], 1, 100)
            /\ Within(body[i]["n"], 1, 4)
            /\ body[i]["response_format"] \in {Str("b64_json"), Str("url")}

(* C6: in the URL-forced deployment the outbound body always has           *)
(* response_format "url", whatever the caller sent.                        *)
C6_UrlForced ==
    \A i \in Slots :
        (variant = "url" /\ Posted(i))
        => /\ "response_format" \in DOMAIN body[i]
           /\ body[i]["response_format"] = Str("url")

C6_Witness ==
    \E i \in Slots :
        /\ variant = "url"
        /\ Posted(i)
        /\ "response_format" \in DOMAIN req[i].arguments.props
        /\ req[i].arguments.props["response_format"] = Str("b64_json")
        /\ body[i]["response_format"] = Str("url")


\* the first image entry of the answer carries a remote address
HasAddress(d) ==
    /\ d.t = "object"
    /\ d.hasList
    /\ Len(d.list) >= 1
    /\ d.list[1].url.t = "string"
    /\ d.list[1].url.s # ""

\* the handler returned a payload of exactly one text block, flagged or not
Returned(i, flagged) ==
    /\ outcome[i].kind = "result"
    /\ outcome[i].isError = flagged
    /\ Len(outcome[i].content) = 1
    /\ outcome[i].content[1].type = "text"

(* C7: in the URL-forced deployment a downstream success whose first entry *)
(* has an address gives a success payload of one text block holding only   *)
(* that address; one without it gives an internal error mentioning         *)
(* "image URL", never a payload.                                           *)
C7_UrlShaping ==
    \A i \in Slots :
        (variant = "url" /\ http[i].status = "resolved")
        => /\ pc[i] = "done"
           /\ IF HasAddress(http[i].data)
              THEN /\ Returned(i, FALSE)
                   /\ outcome[i].content[1].text = <<http[i].data.list[1].url.s>>
              ELSE /\ ThrewMcp(i, "InternalError")
                   /\ Mentions(outcome[i].error.message, "image URL")

C7_Witness ==
    \E i \in Slots :
        /\ variant = "url"
        /\ http[i].status = "resolved"
        /\ http[i].data.hasList
        /\ Len(http[i].data.list) = 1
        /\ http[i].data.list[1].url = Str("")
        /\ ThrewMcp(i, "InternalError")

\* the downstream answered the POST with an error status and a body
StructuredError(i) ==
    /\ http[i].status = "rejected"
    /\ http[i].error.isAxiosError
    /\ http[i].error.hasResponse

\* the message of that body, when it has one
HasMessage(d) == d.t = "object" /\ d.message.t = "string" /\ d.message.s # ""

(* C8: a downstream error with a structured body ends the invocation       *)
(* normally with a flagged payload of one text block; its text holds the   *)
(* body's message, or the transport error text when the body has none.     *)
C8_DownstreamErrorIsFlagged ==
    \A i \in Slots :
        StructuredError(i)
        => /\ pc[i] = "done"
           /\ Returned(i, TRUE)
           /\ IF HasMessage(http[i].error.data)
              THEN Mentions(outcome[i].content[1].text, http[i].error.data.message.s)
              ELSE Mentions(outcome[i].content[1].text, http[i].error.message[1])

C8_Witness ==
    \E i \in Slots :
        /\ StructuredError(i)
        /\ http[i].error.data.message = Str("quota exceeded")
        /\ Returned(i, TRUE)
        /\ outcome[i].content[1].text = <<"API Error: ", "quota exceeded">>

(* C9 as stated: a downstream failure without a structured response is     *)
(* thrown on to the caller; the handler returns no payload for it.         *)
C9_Original ==
    \A i \in Slots :
        (http[i].status = "rejected" /\ ~http[i].error.hasResponse)
        => outcome[i].kind = "thrown"

(* C9 as amended: a downstream failure that is not an axios error is       *)
(* thrown on unchanged and no payload is returned; an axios error without  *)
(* a response (a network failure) is absorbed into a flagged payload whose *)
(* text holds the transport error text.                                    *)
C9_OnlyForeignFaultsPropagate ==
    \A i \in Slots :
        (http[i].status = "rejected" /\ ~http[i].error.hasResponse)
        => /\ pc[i] = "done"
           /\ IF http[i].error.isAxiosError
              THEN /\ Returned(i, TRUE)
                   /\ Mentions(outcome[i].content[1].text, http[i].error.message[1])
              ELSE /\ outcome[i].kind = "thrown"
                   /\ outcome[i].error = http[i].error
                   /\ outcome[i].content = <<>>

C9_Witness ==
    \E i \in Slots :
        /\ http[i].status = "rejected"
        /\ ~http[i].error.isAxiosError
        /\ http[i].error.message = <<"socket hang up">>
        /\ outcome[i].kind = "thrown"

\* the caller named a save path and the first entry holds inline bytes
SaveCase(i) ==
    /\ variant = "inline"
    /\ http[i].status = "resolved"
    /\ "image_path" \in DOMAIN req[i].arguments.props
    /\ req[i].arguments.props["image_path"].t = "string"
    /\ req[i].arguments.props["image_path"].cs # <<>>
    /\ http[i].data.t = "object" /\ http[i].data.hasList /\ Len(http[i].data.list) >= 1
    /\ http[i].data.list[1].b64_json.t = "string"
    /\ http[i].data.list[1].b64_json.cs # <<>>

\* the absolute path a save path stands for, the process running in /w/d
AbsolutePath(chars) ==
    CASE chars = <<"/", "t", "/", ".", "/", "o">> -> "/t/o"
      [] chars = <<".", ".", "/", "o">> -> "/w/o"

\* text has part a and, after it, part b
Follows(text, a, b) ==
    \E j, k \in 1..Len(text) : j < k /\ text[j] = a /\ text[k] = b

(* C10: in the inline deployment, a downstream success with inline bytes   *)
(* and a caller's save path makes the handler issue one write; when the    *)
(* write completes the file at the resolved absolute path holds exactly    *)
(* the bytes that were encoded, and the success text holds that path       *)
(* followed by the full JSON result.                                       *)
C10_SaveWritesDecodedBytes ==
    \A i \in Slots :
        SaveCase(i)
        => /\ writes[i] = 1
           /\ (pc[i] = "done" /\ outcome[i].kind = "result")
              => LET out == AbsolutePath(req[i].arguments.props["image_path"].cs)
                 IN  /\ out \in DOMAIN fs
                     /\ \E img \in Images :
                           /\ http[i].data.list[1].b64_json.cs = B64Encode(img)
                           /\ fs[out] = img
                     /\ Returned(i, FALSE)
                     /\ Follows(outcome[i].content[1].text, out, Stringify(http[i].data))

C10_Witness ==
    \E i \in Slots :
        /\ SaveCase(i)
        /\ pc[i] = "done"
        /\ req[i].arguments.props["image_path"].cs = <<".", ".", "/", "o">>
        /\ http[i].data.list[1].b64_json.cs = <<"T", "W", "E", "=">>
        /\ "/w/o" \in DOMAIN fs
        /\ fs["/w/o"] = <<77, 97>>
        /\ Returned(i, FALSE)
        /\ outcome[i].content[1].text[2] = "/w/o"


(* C11: in the inline deployment a write that fails after the downstream   *)
(* call succeeded ends the invocation in an internal error whose message   *)
(* names the cause; it is neither a flagged "API Error" payload nor a      *)
(* success, and the invocation keeps to its one POST and its one write.    *)
C11_WriteFailureIsInternalError ==
    \A i \in Slots :
        save[i].status = "rejected"
        => /\ variant = "inline"
           /\ http[i].status = "resolved"
           /\ pc[i] = "done"
           /\ ThrewMcp(i, "InternalError")
           /\ Mentions(outcome[i].error.message, save[i].cause)
           /\ outcome[i].content = <<>>
           /\ ~outcome[i].isError
           /\ posts[i] = 1
           /\ writes[i] = 1

C11_Witness ==
    \E i \in Slots :
        /\ save[i].status = "rejected"
        /\ save[i].cause = "ENOSPC: no space left on device"
        /\ http[i].status = "resolved"
        /\ ThrewMcp(i, "InternalError")
        /\ outcome[i].error.message =
              <<"Failed to save image: ", "ENOSPC: no space left on device">>


\* the invocation passes routing and validation
WellFormed(r) == r.name = "generate_image" /\ ~BadArguments(r.arguments)

(* C12: an invocation issues exactly one POST when routing and validation  *)
(* pass and none otherwise, and the count stays there once the POST has    *)
(* failed or succeeded, through shaping and save errors too: no retry.     *)
C12_AtMostOnePost ==
    \A i \in Slots :
        /\ Active(i) => posts[i] = (IF WellFormed(req[i]) THEN 1 ELSE 0)
        /\ http[i].status # "pending" => posts[i] = 1
        /\ ~Active(i) => posts[i] = 0

C12_Witness ==
    \E i \in Slots :
        /\ pc[i] = "done"
        /\ http[i].status = "rejected"
        /\ http[i].error.isAxiosError
        /\ ~http[i].error.hasResponse
        /\ posts[i] = 1


\* the body the invocation r sends when it runs alone under the configuration
AloneBody(r) ==
    RequestBody(variant, DefaultConfig(variant, defaultModel), r.arguments.props)

\* the outcome the invocation r has when it runs alone, its POST settling as
\* h and its write as w
AloneOutcome(r, h, w) ==
    IF Validate(r) # NoError THEN Throw(Validate(r))
    ELSE IF h.status = "rejected" THEN Catch(h.error)
    ELSE IF variant = "url" THEN ShapeUrl(h.data)
    ELSE IF h.data.t = "undefined"
    THEN Catch(TypeError(<<"Cannot read properties of undefined (reading 'data')">>))
    ELSE IF ~WantsSave(r.arguments.props, h.data) THEN ShapeInline(h.data)
    ELSE IF TypeOf(r.arguments.props["image_path"]) # "string"
    THEN Catch(SaveFailed("The \"paths[0]\" argument must be of type string"))
    ELSE IF w.status = "rejected" THEN Catch(SaveFailed(w.cause))
    ELSE Result(SavedText(r.arguments.props, h.data), FALSE)

(* C13: with invocations interleaved in any order around their downstream  *)
(* calls and writes, the body each one sends and the outcome each one has  *)
(* are those it has when run alone: they are fixed by its own arguments,   *)
(* the configuration and the way its own POST and write settled.           *)
C13_InvocationsIndependent ==
    \A i \in Slots :
        /\ Posted(i) => body[i] = AloneBody(req[i])
        /\ pc[i] = "done" => outcome[i] = AloneOutcome(req[i], http[i], save[i])
        /\ pc[i] \in {"requesting", "saving"} => outcome[i] = NoOutcome

C13_Witness ==
    \E i, j \in Slots :
        /\ i # j
        /\ pc[i] = "done" /\ pc[j] = "done"
        /\ http[i].status = "resolved" /\ http[j].status = "rejected"
        /\ "model" \in DOMAIN req[i].arguments.props
        /\ "model" \notin DOMAIN req[j].arguments.props
        /\ body[i]["model"] = Str("dall-e-3")
        /\ body[j]["model"] # Str("dall-e-3")
        /\ outcome[i] = AloneOutcome(req[i], http[i], save[i])
        /\ outcome[j] = AloneOutcome(req[j], http[j], save[j])


\* the caller named a non-empty save path and the first entry of the answer
\* carries inline bytes
SaveAsked(i) ==
    /\ "image_path" \in DOMAIN req[i].arguments.props
    /\ req[i].arguments.props["image_path"] \notin {Undefined, Null, Str(""), Num(0)}
    /\ http[i].data.t = "object" /\ http[i].data.hasList /\ Len(http[i].data.list) >= 1
    /\ http[i].data.list[1].b64_json.t = "string"
    /\ http[i].data.list[1].b64_json.cs # <<>>

\* a write is issued only by the inline deployment, after its POST resolved,
\* for a save that was asked for
C14_WritesOnlyForSaves ==
    \A i \in Slots :
        writes[i] > 0 => variant = "inline" /\ http[i].status = "resolved" /\ SaveAsked(i)

\* the filesystem changes only in a step of an invocation waiting on such a write
C14_FilesystemFrame ==
    fs' # fs => \E i \in Slots :
                    /\ pc[i] = "saving" /\ pc'[i] = "done"
                    /\ variant = "inline" /\ http[i].status = "resolved" /\ SaveAsked(i)

\* without a save the inline deployment returns the full JSON result unmodified
C14_NoSaveReturnsJson ==
    \A i \in Slots :
        (variant = "inline" /\ http[i].status = "resolved" /\ ~SaveAsked(i))
        => /\ pc[i] = "done"
           /\ Returned(i, FALSE)
           /\ outcome[i].content[1].text = <<Stringify(http[i].data)>>

C14_FrameOnly == [](C14_WritesOnlyForSaves) /\ [][C14_FilesystemFrame]_vars


\* the fields of an outbound body
BodyFields == {"model", "width", "height", "steps", "n", "prompt", "response_format"}

\* the keys of an arguments bag that are not forwarded: every key outside
\* the body's fields and, in the URL-forced deployment, response_format
Ignored(k) == k \notin BodyFields \/ (variant = "url" /\ k = "response_format")

\* an arguments bag without its ignored keys
Forwarded(props) == [k \in {x \in DOMAIN props : ~Ignored(x)} |-> props[k]]

(* C15: an outbound body has exactly the fields model, width, height,      *)
(* steps, n, prompt and response_format; a key such as image_path, or in   *)
(* the URL-forced deployment the caller's response_format, is never sent   *)
(* on, and two invocations whose arguments differ only in such keys send   *)
(* the same body.                                                          *)
C15_OnlyBodyFieldsForwarded ==
    \A i \in Slots :
        Posted(i) =>
            /\ DOMAIN body[i] = BodyFields
            /\ \A j \in Slots :
                  (Posted(j) /\ Forwarded(req[i].arguments.props) = Forwarded(req[j].arguments.props))
                  => body[i] = body[j]

C15_Witness ==
    \E i, j \in Slots :
        /\ Posted(i) /\ Posted(j)
        /\ req[i].arguments.props = ("prompt" :> Str("a cat"))
        /\ req[j].arguments.props =
              ("prompt" :> Str("a cat")) @@ ("image_path" :> CStr(<<".", ".", "/", "o">>))
        /\ body[i] = body[j]
        /\ DOMAIN body[j] = BodyFields

====
